---- MODULE Spec2Model ----
(***************************************************************************)
(* Graph builder of HiReCS (src/export/cluster.hpp, class Graph declared   *)
(* in src/unnamed/part_002 = cluster.h).                                   *)
(*                                                                         *)
(* The state is one Graph<WEIGHTED, UNSIGNED> object: its node list, the   *)
(* id -> node map and its three flags.  Every public method is one action  *)
(* that models the whole method, helpers included.                         *)
(*                                                                         *)
(* Weights are floats in the code.  A model weight v stands for the float  *)
(* v/2, so that the halving of an integral input weight is exact, as it is *)
(* in binary floating point.                                               *)
(*                                                                         *)
(* Two outcomes depend on the build and are both modelled:                 *)
(*  - assert() aborts the process when NDEBUG is not defined and is a      *)
(*    no-op when it is.  The build is fixed for a whole behaviour, and it  *)
(*    shows only when an assert fails: the first failed assert either ends *)
(*    the behaviour (abort) or sets ndebug, after which no assert aborts;  *)
(*  - rand() % links.size() with an empty link vector is an integer        *)
(*    division by zero: undefined behaviour, which traps on some targets   *)
(*    and yields 0 on others (each occurrence chooses).                    *)
(* After an abort or a trap the process is gone: no action is enabled.     *)
(***************************************************************************)
EXTENDS Integers, Sequences, FiniteSets

\* ------------------------------------------------------------------ bounds
\* Longest id list / link list passed to one call.
MaxLinks == 1
\* The node ids the caller uses.
Ids == 0..1
\* The whole numbers the caller uses as link weights: zero and a weight whose
\* half and double differ from it.
InpWholes == 0..1
\* A behaviour makes a first and a second addNodes / addNodeLinks /
\* addNodeAndLinks call; finalize and reinit are not counted.
CallNos == 1..2

VARIABLES
    weighted,      \* template parameter WEIGHTED of the Graph
    ndebug,        \* the build is known to define NDEBUG: a failed assert
                   \* has been passed over
    nodes,         \* Graph::nodes, the std::list of nodes in list order
    m_idNodes,     \* Graph::m_idNodes, id -> node address
    m_finalized,   \* Graph::m_finalized
    m_directed,    \* Graph::m_directed
    m_shuffle,     \* Graph::m_shuffle
    last,          \* the last call made on the Graph and how it ended
    ncalls,        \* number of add* calls made so far (bounded by CallNos)
    dirCalled,     \* history: a DIRECTED=true link call was made since
                   \* construction or the last reinit
    dirCalledOpen, \* history: ... and the graph was not finalized at that call
    finalizeCalled, \* history: finalize() has been called
    hier,          \* the clusters and nodes a Hierarchy refers to
    clNodes,       \* the ClusterNodes map a caller passes to unwrap()
    ucl,           \* the clusters unwrapped into clNodes so far
    phase,         \* cluster(): "idle" (not called), "folding" or "done"
    level,         \* cluster(): the items of the current level
    fast,          \* cluster(): parameter fast (quasi-mutual clustering)
    modProfitMarg, \* cluster(): parameter modProfitMarg
    dmod,          \* cluster(): modularity gain of the last iteration
    gains,         \* cluster(): gains of the pairs of the last iteration
    prevLevel,     \* cluster(): the level the last iteration started from
    formed,        \* cluster(): the clusters the last iteration added
    sect,          \* Client::process: local sect, the section being read
    m_nodesNum,    \* Client::m_nodesNum
    m_nodesStartId, \* Client::m_nodesStartId
    m_graphPtr,    \* Client::m_graphPtr is not null: the Graph exists
    line,          \* Client::process: the line read last
    nread,         \* number of lines read so far
    pres,          \* Client::process: "reading", "clustered" or how it ended
    heads,         \* history: the titles of the section headers read so far
    handed,        \* what processGraph handed to processNodes
    levels,        \* Hierarchy: the levels of clusters, the bottom level first
    m_travLevel,   \* Hierarchy: the level the next traverseNextLevel visits
    tlog,          \* history: the traversing calls made and what they did
    m_uid,         \* Cluster<LinksT>::m_uid, one counter per LinksT
    ctor,          \* the Cluster constructor each clustering call is in
    made           \* history: the clusters in the order their ids were taken

vars == <<weighted, ndebug, nodes, m_idNodes, m_finalized, m_directed,
          m_shuffle, last, ncalls, dirCalled, dirCalledOpen, finalizeCalled>>

\* The variables of the hierarchy; the Graph's methods leave them alone.
hvars == <<hier, clNodes, ucl>>

\* The variables of a cluster() call; the Graph's methods and unwrap() leave
\* them alone.
cvars == <<phase, level, fast, modProfitMarg, dmod, gains, prevLevel, formed>>

\* The variables of the client reading a .hig file.
fvars == <<sect, m_nodesNum, m_nodesStartId, m_graphPtr, line, nread, pres,
           heads, handed>>

\* The variables of the traversing of a Hierarchy.
tvars == <<levels, m_travLevel, tlog>>

\* The variables of the cluster id counters.
ivars == <<m_uid, ctor, made>>

\* ----------------------------------------------------------------- values
\* The float k (a whole number) in the model's half units.
ToWeight(k) == k + k

\* weight /= 2
\* Faulty variant of Halve: the division of line 112 is forgotten.
HalveForgotten(w) == w

Halve(w) == w \div 2

\* Link<WeightT, false>::weight, the weight of every unweighted link.
SimpleWeight == ToWeight(1)

\* InpLink<WEIGHTED, UNSIGNED>: the unweighted specialization has no weight
\* member but the static constant.
InpWeights(w) == IF w THEN {ToWeight(k) : k \in InpWholes} ELSE {SimpleWeight}

InpLinkT(w) == [id : Ids, weight : InpWeights(w)]

SeqsUpTo(S, n) == UNION {[1..k -> S] : k \in 0..n}

\* Node::Node(nid): no links, zero self-weight.  addr is the node's address
\* (nodes live in a std::list, so addresses are stable); selfSets is history:
\* how many times acsAddNodeLink assigned this node's self-weight.
NewNode(a, nid) ==
    [addr |-> a, id |-> nid, sweight |-> 0, links |-> <<>>, selfSets |-> 0]

EmptyMap == [x \in {} |-> 0]

\* unordered_map::emplace of a key that is not in the map yet.
MapPut(m, k, a) == [x \in (DOMAIN m) \cup {k} |-> IF x = k THEN a ELSE m[x]]

Addrs(ns) == {ns[i].addr : i \in 1..Len(ns)}

NodeAt(ns, a) == ns[CHOOSE i \in 1..Len(ns) : ns[i].addr = a]

\* The list with the node at address a replaced by f-updated copy.
SetNode(ns, a, n) == [i \in 1..Len(ns) |-> IF ns[i].addr = a THEN n ELSE ns[i]]

\* vector::emplace(begin() + p, x)
InsertAt(s, p, x) == SubSeq(s, 1, p) \o <<x>> \o SubSeq(s, p + 1, Len(s))

Dead(res) == res \in {"abort", "crash"}

Alive == ~Dead(last.res)

\* ------------------------------------------------- helpers of cluster.hpp
\* A helper works on st = [nodes, idn, res, ndebug]: the node list, the
\* id -> node map, how the call has gone so far ("ok" while it is running
\* normally) and what is known of the build.  It yields the set of states the
\* build and rand() can produce.

\* bool iback = !shuffle || rand() % 2;
IBack(shuffle) == IF shuffle THEN {TRUE, FALSE} ELSE {TRUE}

\* if(iback) nodes.emplace_back(id); else nodes.emplace_front(id);
Emplace(ns, nid, iback) ==
    LET n == NewNode(Len(ns) + 1, nid)
    IN  IF iback THEN Append(ns, n) ELSE <<n>> \o ns

\* assert(cond) with cond false, the call being in state st: the process
\* aborts, unless the build defines NDEBUG and the call goes on.
AssertFailed(st) ==
    (IF st.ndebug THEN {} ELSE {[st EXCEPT !.res = "abort"]})
        \cup {[st EXCEPT !.ndebug = TRUE]}

\* The body of the node loops of acsAddNodes and Graph::addNodes(idBeg, idEnd):
\* the node is emplaced first, then the map is asked to take the id; the map
\* keeps the first node of an id, and only an assert looks at the answer.
EmplaceNode(st, nid, shuffle) ==
    UNION { LET ns == Emplace(st.nodes, nid, b)
            IN  IF nid \in DOMAIN st.idn
                THEN AssertFailed([st EXCEPT !.nodes = ns])
                ELSE {[st EXCEPT !.nodes = ns,
                                 !.idn = MapPut(st.idn, nid, Len(ns))]}
            : b \in IBack(shuffle) }

RECURSIVE acsAddNodes(_, _, _)
acsAddNodes(st, nodesIds, shuffle) ==
    IF nodesIds = <<>> \/ st.res # "ok" THEN {st}
    ELSE UNION { acsAddNodes(o, Tail(nodesIds), shuffle)
                 : o \in EmplaceNode(st, Head(nodesIds), shuffle) }

\* What InpOperations<!WEIGHTED>::addLink stores: the unweighted link has no
\* weight member, its weight is the static constant.
StoredLink(dstA, w) ==
    [dest |-> dstA, weight |-> IF weighted THEN w ELSE SimpleWeight]

\* InpOperations<SIMPLE>::addLink(src, dst, weight, shuffle)
addLink(st, srcA, dstA, w, shuffle) ==
    LET src == NodeAt(st.nodes, srcA)
        With(ls) == [st EXCEPT !.nodes =
                        SetNode(st.nodes, srcA, [src EXCEPT !.links = ls])]
    IN  IF ~shuffle
        THEN {With(Append(src.links, StoredLink(dstA, w)))}
        ELSE IF Len(src.links) = 0
        THEN \* rand() % 0: a trap, or 0 where the division does not trap
             {[st EXCEPT !.res = "crash"], With(<<StoredLink(dstA, w)>>)}
        ELSE {With(InsertAt(src.links, p, StoredLink(dstA, w)))
              : p \in 0..(Len(src.links) - 1)}

\* weight * (1 + (!WEIGHTED && !DIRECTED))
\* Faulty variant of SelfWeightOf: the self weight is never doubled.
SelfWeightNotDoubled(dir, w) == w

SelfWeightOf(dir, w) == w * (1 + (IF ~weighted /\ ~dir THEN 1 ELSE 0))

\* acsAddNodeLink<DIRECTED, WEIGHTED>(nd, dst, weight, shuffle)
acsAddNodeLink(st, dir, ndA, dstA, w, shuffle) ==
    IF dstA = ndA
    THEN LET nd == NodeAt(st.nodes, ndA)
             Set(s) == IF s.res # "ok" THEN s
                       ELSE [s EXCEPT !.nodes = SetNode(s.nodes, ndA,
                               [nd EXCEPT !.sweight = SelfWeightOf(dir, w),
                                          !.selfSets = @ + 1])]
         IN  \* assert(!dst->selfWeight() && "... just once");
             IF nd.sweight # 0
             THEN {Set(s) : s \in AssertFailed(st)}
             ELSE {Set(st)}
    ELSE IF ~dir
    THEN UNION { IF o.res # "ok" THEN {o}
                 ELSE addLink(o, ndA, dstA, Halve(w), shuffle)
                 : o \in addLink(st, dstA, ndA, Halve(w), shuffle) }
    ELSE addLink(st, ndA, dstA, w, shuffle)

\* The loop of acsAddNodeLinks: idNodes.at(ln.id) throws out_of_range for an
\* unknown destination; what earlier links did stays.
RECURSIVE LinksLoop(_, _, _, _, _)
LinksLoop(st, dir, ndA, links, shuffle) ==
    IF links = <<>> \/ st.res # "ok" THEN {st}
    ELSE LET ln == Head(links)
         IN  IF ln.id \notin DOMAIN st.idn
             THEN {[st EXCEPT !.res = "out_of_range"]}
             ELSE UNION { LinksLoop(o, dir, ndA, Tail(links), shuffle)
                          : o \in acsAddNodeLink(st, dir, ndA, st.idn[ln.id],
                                                 ln.weight, shuffle) }

\* acsAddNodeLinks<DIRECTED, WEIGHTED>(idNodes, src, links, shuffle)
acsAddNodeLinks(st, dir, src, links, shuffle) ==
    IF src \notin DOMAIN st.idn
    THEN {[st EXCEPT !.res = "out_of_range"]}
    ELSE LinksLoop(st, dir, st.idn[src], links, shuffle)

\* idNodes.find(id); a node is created only when the id is not found.
CreateIfMissing(st, nid, shuffle) ==
    IF nid \in DOMAIN st.idn THEN {st} ELSE EmplaceNode(st, nid, shuffle)

RECURSIVE AndLinksLoop(_, _, _, _, _)
AndLinksLoop(st, dir, ndA, links, shuffle) ==
    IF links = <<>> \/ st.res # "ok" THEN {st}
    ELSE LET ln == Head(links)
         IN  UNION { UNION { AndLinksLoop(o2, dir, ndA, Tail(links), shuffle)
                             : o2 \in acsAddNodeLink(o1, dir, ndA, o1.idn[ln.id],
                                                     ln.weight, shuffle) }
                     : o1 \in CreateIfMissing(st, ln.id, shuffle) }

\* acsAddNodeAndLinks<DIRECTED, WEIGHTED>(nodes, idNodes, src, links, shuffle)
acsAddNodeAndLinks(st, dir, src, links, shuffle) ==
    UNION { AndLinksLoop(o, dir, o.idn[src], links, shuffle)
            : o \in CreateIfMissing(st, src, shuffle) }

\* ------------------------------------------------------- the Graph methods
Here == [nodes |-> nodes, idn |-> m_idNodes, res |-> "ok", ndebug |-> ndebug]

CallRec(op, dir, shuffle, src, ids, links, res) ==
    [op |-> op, dir |-> dir, shuffle |-> shuffle, src |-> src, ids |-> ids,
     links |-> links, res |-> res]

\* Graph::validateExtension()
\* Faulty variant of validateExtension: a finalized graph is not detected.
validateExtensionSkipped == "ok"

validateExtension == IF m_finalized THEN "domain_error" ELSE "ok"

\* m_directed |= DIRECTED;
\* Faulty variant of DirectedAfter: "=" instead of "|=".
DirectedAssigned(dir) == dir

DirectedAfter(dir) == m_directed \/ dir

\* No Hierarchy object exists while the Graph is built.
NoHierarchy == [nodes |-> {}, cls |-> {}, des |-> EmptyMap, owners |-> EmptyMap,
                root |-> {}]
\* An empty ClusterNodes map.
NoShares == EmptyMap

\* cluster() has not been called.
ClusterIdle ==
    /\ phase = "idle"
    /\ level = {}
    /\ fast = FALSE
    /\ modProfitMarg = 0
    /\ dmod = 0
    /\ gains = EmptyMap
    /\ prevLevel = {}
    /\ formed = {}

\* constexpr Id ID_NONE = numeric_limits<Id>::max(), a value behind the
\* integers of the model checker: written as the -1 that converts to it.
ID_NONE == -1

\* No client reads a file: the members as Client::process sets them first.
ClientIdle ==
    /\ sect = "NONE"
    /\ m_nodesNum = 0
    /\ m_nodesStartId = ID_NONE
    /\ m_graphPtr = FALSE
    /\ line = <<>>
    /\ nread = 0
    /\ pres = "idle"
    /\ heads = <<>>
    /\ handed = <<>>

\* The kinds of links the templates are instantiated for in one process:
\* Graph<true> and Graph<false> give two types LinksT.
LinksTypes == {"weighted", "unweighted"}

\* template<typename LinksT> atomic<Id> Cluster<LinksT>::m_uid(0): a static
\* member of a class template, one object for each LinksT.
NoClusterMade ==
    /\ m_uid = [t \in LinksTypes |-> 0]
    /\ ctor = EmptyMap
    /\ made = <<>>

\* No Hierarchy is traversed.
TraverseIdle == levels = <<>> /\ m_travLevel = 0 /\ tlog = <<>>

\* Graph::Graph(nodesNum, shuffle): m_shuffle is initialized with false,
\* whatever the argument.
GraphCtorShuffle(shuffle) == FALSE

Init ==
    /\ weighted \in BOOLEAN
    /\ ndebug = FALSE
    /\ nodes = <<>>
    /\ m_idNodes = EmptyMap
    /\ m_finalized = FALSE
    /\ m_directed = FALSE
    /\ \E s \in BOOLEAN :
          /\ m_shuffle = GraphCtorShuffle(s)
          /\ last = CallRec("Graph", FALSE, s, 0, <<>>, <<>>, "ok")
    /\ ncalls = 0
    /\ dirCalled = FALSE
    /\ dirCalledOpen = FALSE
    /\ finalizeCalled = FALSE
    /\ hier = NoHierarchy
    /\ ClusterIdle
    /\ ClientIdle
    /\ TraverseIdle /\ NoClusterMade
    /\ clNodes = NoShares
    /\ ucl = <<>>

\* A call that ends in its first lines with a domain_error: nothing but the
\* exception.
Rejected(op, dir, src, ids, links) ==
    /\ last' = CallRec(op, dir, FALSE, src, ids, links, "domain_error")
    /\ UNCHANGED <<nodes, m_idNodes, m_directed, ndebug>>

\* What a call that ran left behind.
Effect(o) ==
    /\ nodes' = o.nodes
    /\ m_idNodes' = o.idn
    /\ ndebug' = o.ndebug

\* Graph::addNodes(const Ids&) and Graph::addNodes(initializer_list<Id>)
addNodes(nodesIds) ==
    /\ Alive /\ ncalls + 1 \in CallNos
    /\ ncalls' = ncalls + 1
    /\ IF validateExtension # "ok"
       THEN Rejected("addNodes", FALSE, 0, nodesIds, <<>>)
       ELSE \E o \in acsAddNodes(Here, nodesIds, m_shuffle) :
               /\ Effect(o)
               /\ last' = CallRec("addNodes", FALSE, FALSE, 0, nodesIds, <<>>, o.res)
               /\ UNCHANGED m_directed
    /\ UNCHANGED <<weighted, m_finalized, m_shuffle, dirCalled, dirCalledOpen,
                   finalizeCalled>>
    /\ UNCHANGED <<hvars, cvars, fvars, tvars, ivars>>

\* The values the caller passes as idBeg and idEnd: an id, or one past an id.
RangeEnds == Ids \cup {x + 1 : x \in Ids}

\* The ids idBeg, idBeg+1, ..., idEnd-1 of the range loop.
RangeIds(idBeg, idEnd) == [i \in 1..(idEnd - idBeg) |-> idBeg + i - 1]

\* Graph::addNodes(Id idBeg, Id idEnd)
addNodesRange(idBeg, idEnd) ==
    /\ Alive /\ ncalls + 1 \in CallNos
    /\ ncalls' = ncalls + 1
    /\ IF validateExtension # "ok" \/ idEnd < idBeg
       THEN Rejected("addNodesRange", FALSE, 0, <<idBeg, idEnd>>, <<>>)
       ELSE \E o \in acsAddNodes(Here, RangeIds(idBeg, idEnd), m_shuffle) :
               /\ Effect(o)
               /\ last' = CallRec("addNodesRange", FALSE, FALSE, 0,
                                  <<idBeg, idEnd>>, <<>>, o.res)
               /\ UNCHANGED m_directed
    /\ UNCHANGED <<weighted, m_finalized, m_shuffle, dirCalled, dirCalledOpen,
                   finalizeCalled>>
    /\ UNCHANGED <<hvars, cvars, fvars, tvars, ivars>>

\* Graph::addNodeLinks<DIRECTED>(node, links), both overloads
addNodeLinks(dir, node, links) ==
    /\ Alive /\ ncalls + 1 \in CallNos
    /\ ncalls' = ncalls + 1
    /\ dirCalled' = (dirCalled \/ dir)
    /\ dirCalledOpen' = (dirCalledOpen \/ (dir /\ ~m_finalized))
    /\ IF validateExtension # "ok"
       THEN Rejected("addNodeLinks", dir, node, <<>>, links)
       ELSE \E o \in acsAddNodeLinks(Here, dir, node, links, m_shuffle) :
               /\ m_directed' = DirectedAfter(dir)
               /\ Effect(o)
               /\ last' = CallRec("addNodeLinks", dir, FALSE, node, <<>>, links, o.res)
    /\ UNCHANGED <<weighted, m_finalized, m_shuffle, finalizeCalled>>
    /\ UNCHANGED <<hvars, cvars, fvars, tvars, ivars>>

\* Graph::addNodeAndLinks<DIRECTED>(node, links)
addNodeAndLinks(dir, node, links) ==
    /\ Alive /\ ncalls + 1 \in CallNos
    /\ ncalls' = ncalls + 1
    /\ dirCalled' = (dirCalled \/ dir)
    /\ dirCalledOpen' = (dirCalledOpen \/ (dir /\ ~m_finalized))
    /\ IF validateExtension # "ok"
       THEN Rejected("addNodeAndLinks", dir, node, <<>>, links)
       ELSE \E o \in acsAddNodeAndLinks(Here, dir, node, links, m_shuffle) :
               /\ m_directed' = DirectedAfter(dir)
               /\ Effect(o)
               /\ last' = CallRec("addNodeAndLinks", dir, FALSE, node, <<>>, links, o.res)
    /\ UNCHANGED <<weighted, m_finalized, m_shuffle, finalizeCalled>>
    /\ UNCHANGED <<hvars, cvars, fvars, tvars, ivars>>

\* Graph::finalize()
finalize ==
    /\ Alive
    /\ m_idNodes' = EmptyMap
    /\ m_finalized' = TRUE
    /\ finalizeCalled' = TRUE
    /\ last' = CallRec("finalize", FALSE, FALSE, 0, <<>>, <<>>, "ok")
    /\ UNCHANGED <<weighted, ndebug, nodes, m_directed, m_shuffle, ncalls,
                   dirCalled, dirCalledOpen>>
    /\ UNCHANGED <<hvars, cvars, fvars, tvars, ivars>>

\* Graph::reinit(nodesNum, shuffle)
reinit(shuffle) ==
    /\ Alive
    /\ nodes' = <<>>
    /\ m_directed' = FALSE
    /\ m_idNodes' = EmptyMap
    /\ m_shuffle' = shuffle
    /\ last' = CallRec("reinit", FALSE, shuffle, 0, <<>>, <<>>, "ok")
    /\ dirCalled' = FALSE
    /\ dirCalledOpen' = FALSE
    /\ UNCHANGED <<weighted, ndebug, m_finalized, ncalls, finalizeCalled>>
    /\ UNCHANGED <<hvars, cvars, fvars, tvars, ivars>>

Next ==
    \/ \E ids \in SeqsUpTo(Ids, MaxLinks) : addNodes(ids)
    \/ \E b \in RangeEnds, e \in RangeEnds : addNodesRange(b, e)
    \/ \E dir \in BOOLEAN, n \in Ids, ls \in SeqsUpTo(InpLinkT(weighted), MaxLinks) :
          addNodeLinks(dir, n, ls)
    \/ \E dir \in BOOLEAN, n \in Ids, ls \in SeqsUpTo(InpLinkT(weighted), MaxLinks) :
          addNodeAndLinks(dir, n, ls)
    \/ finalize
    \/ \E s \in BOOLEAN : reinit(s)

Spec == Init /\ [][Next]_vars

(***************************************************************************)
(* Properties of the Graph builder                                         *)
(***************************************************************************)
NodeOps == {"addNodes", "addNodesRange"}
LinkOps == {"addNodeLinks", "addNodeAndLinks"}

\* The step is one call of an add* operation (last' describes it).
Called == ncalls' = ncalls + 1

\* The ids a call of addNodes asked for.
AskedIds(call) ==
    IF call.op = "addNodesRange"
    THEN IF call.ids[2] < call.ids[1] THEN <<>> ELSE RangeIds(call.ids[1], call.ids[2])
    ELSE call.ids

\* C1: once finalize() has been called, every later addNodes, addNodeLinks
\* or addNodeAndLinks call fails with an error and leaves the node
\* collection as it was, however many such calls follow.
FinalizedStep ==
    (finalizeCalled /\ Called)
        => (last'.res = "domain_error" /\ nodes' = nodes)
FinalizedRejects == [][FinalizedStep]_vars

\* A graph with nodes was finalized and then refused a second add* call.
FinalizedRejectsSeen ==
    /\ finalizeCalled
    /\ last.op \in LinkOps \cup NodeOps
    /\ last.res = "domain_error"
    /\ ncalls = 2
    /\ nodes # <<>>

\* C2: addNodes given an id that is already in the builder, or an id that
\* is repeated inside the given list, fails with the input error instead of
\* being accepted.
HasDuplicate(ids, known) ==
    \/ \E i \in DOMAIN ids : ids[i] \in known
    \/ \E i \in DOMAIN ids, j \in DOMAIN ids : i # j /\ ids[i] = ids[j]
DuplicateStep ==
    (Called /\ last'.op \in NodeOps
            /\ HasDuplicate(AskedIds(last'), DOMAIN m_idNodes))
        => last'.res = "domain_error"
DuplicateRejected == [][DuplicateStep]_vars

\* C3: on a graph that is not finalized, addNodeLinks fails with the
\* unknown-node error whenever the source id or any destination id is not
\* in the builder, and succeeds when all of them are.
SomeUnknown(call, known) ==
    \/ call.src \notin known
    \/ \E i \in DOMAIN call.links : call.links[i].id \notin known
UnknownNodeStep ==
    (Called /\ last'.op = "addNodeLinks" /\ ~m_finalized)
        => IF SomeUnknown(last', DOMAIN m_idNodes)
           THEN last'.res = "out_of_range"
           ELSE last'.res = "ok"
UnknownNodeOnly == [][UnknownNodeStep]_vars

\* C4: when addNodeLinks fails on an unknown destination, the builder is
\* left as it was before the call: no node and no link is added, no self
\* weight changes and directed() answers as before.
FailedStep ==
    (Called /\ last'.op = "addNodeLinks" /\ last'.src \in DOMAIN m_idNodes
            /\ last'.res = "out_of_range")
        => (nodes' = nodes /\ m_idNodes' = m_idNodes /\ m_directed' = m_directed)
FailureKeepsState == [][FailedStep]_vars

\* How many arcs a -> d of weight w the node collection ns holds.
ArcCount(ns, a, d, w) ==
    IF a \notin Addrs(ns) THEN 0
    ELSE LET ls == NodeAt(ns, a).links
         IN  Cardinality({i \in DOMAIN ls : ls[i] = [dest |-> d, weight |-> w]})

\* The weights an arc can carry.
ArcWeights == 0..ToWeight(CHOOSE m \in InpWholes : \A k \in InpWholes : k <= m)

\* How many arcs a -> d of weight h the links of the call have to add when
\* every weighted link (dst, w) with dst # src stands for the arcs src -> dst
\* and dst -> src of weight w / 2 each (undirected) or for the one arc
\* src -> dst of weight w (directed); idn maps the ids to the nodes.
WeightedArcsDue(call, idn, a, d, h) ==
    Cardinality({i \in DOMAIN call.links :
        LET ln == call.links[i]
            srcA == idn[call.src]
            dstA == idn[ln.id]
        IN  /\ ln.id # call.src
            /\ IF call.dir
               THEN a = srcA /\ d = dstA /\ h = ln.weight
               ELSE /\ h + h = ln.weight
                    /\ (a = srcA /\ d = dstA) \/ (a = dstA /\ d = srcA)})

\* C5: in a weighted graph a link (dst, w) with dst # src adds exactly the
\* two arcs src -> dst and dst -> src of weight w / 2 each when the addition
\* is undirected, and exactly the one arc src -> dst of weight w, without a
\* back arc, when it is directed.
WeightedArcsStep ==
    (Called /\ weighted /\ last'.op \in LinkOps /\ last'.res = "ok")
        => \A a \in Addrs(nodes'), d \in Addrs(nodes'), h \in ArcWeights :
              ArcCount(nodes', a, d, h)
                = ArcCount(nodes, a, d, h)
                    + WeightedArcsDue(last', m_idNodes', a, d, h)
WeightedArcs == [][WeightedArcsStep]_vars

\* A directed link was added to a weighted graph that already holds the
\* two halves of an undirected link.
WeightedArcsSeen ==
    /\ weighted
    /\ last.op \in LinkOps /\ last.res = "ok" /\ last.dir
    /\ \E i \in DOMAIN last.links :
          /\ last.links[i].id # last.src
          /\ ArcCount(nodes, m_idNodes[last.src], m_idNodes[last.links[i].id],
                      last.links[i].weight) > 0
    /\ \E a \in Addrs(nodes), d \in Addrs(nodes) :
          /\ ArcCount(nodes, a, d, Halve(ToWeight(1))) > 0
          /\ ArcCount(nodes, d, a, Halve(ToWeight(1))) > 0

\* The last link of the call that points to the source itself, if any.
SelfLinks(call) == {i \in DOMAIN call.links : call.links[i].id = call.src}
LastSelfLink(call) ==
    call.links[CHOOSE i \in SelfLinks(call) : \A j \in SelfLinks(call) : j <= i]

\* How many arcs a -> d of weight h the links of an undirected call on an
\* unweighted graph have to add when every link to another node stands for
\* the arcs src -> dst and dst -> src of weight 1 each.
UnitArcsDue(call, idn, a, d, h) ==
    Cardinality({i \in DOMAIN call.links :
        LET srcA == idn[call.src]
            dstA == idn[call.links[i].id]
        IN  /\ call.links[i].id # call.src
            /\ h = ToWeight(1)
            /\ (a = srcA /\ d = dstA) \/ (a = dstA /\ d = srcA)})

\* C6: a self link of weight w sets the self weight of the node to 2 * w
\* when the graph is unweighted and the addition undirected, and to w
\* otherwise; an unweighted undirected link to another node adds the two
\* arcs src -> dst and dst -> src of weight 1 each.
SelfWeightStep ==
    (Called /\ last'.op \in LinkOps /\ last'.res = "ok")
        => /\ SelfLinks(last') # {}
                => LET w == IF weighted THEN LastSelfLink(last').weight
                                        ELSE ToWeight(1)
                   IN  NodeAt(nodes', m_idNodes'[last'.src]).sweight
                         = IF ~weighted /\ ~last'.dir THEN w + w ELSE w
           /\ (~weighted /\ ~last'.dir)
                => \A a \in Addrs(nodes'), d \in Addrs(nodes'), h \in ArcWeights :
                      ArcCount(nodes', a, d, h)
                        = ArcCount(nodes, a, d, h)
                            + UnitArcsDue(last', m_idNodes', a, d, h)
SelfWeight == [][SelfWeightStep]_vars

\* An undirected self link was added to a node of an unweighted graph that
\* has an undirected link to another node.
SelfWeightSeen ==
    /\ ~weighted
    /\ last.op \in LinkOps /\ last.res = "ok" /\ ~last.dir
    /\ SelfLinks(last) # {}
    /\ LET n == NodeAt(nodes, m_idNodes[last.src])
       IN  /\ n.sweight = 2 * ToWeight(1)
           /\ \E d \in Addrs(nodes) :
                 /\ d # n.addr
                 /\ ArcCount(nodes, n.addr, d, ToWeight(1)) = 1
                 /\ ArcCount(nodes, d, n.addr, ToWeight(1)) = 1

\* C7: at most one self-link assignment takes effect on a node, a first
\* self link of weight 0 included; every further one is rejected and the
\* self weight keeps the value of the first.
OneSelfLink == \A i \in DOMAIN nodes : nodes[i].selfSets <= 1

UniqueIds ==
    \A i \in DOMAIN nodes, j \in DOMAIN nodes : i # j => nodes[i].id # nodes[j].id

\* How many nodes of ns have the id nid.
NodesOfId(ns, nid) == Cardinality({i \in DOMAIN ns : ns[i].id = nid})

\* C9: addNodeAndLinks on a graph that is not finalized never fails for an
\* unknown id: when it returns, the source id and every destination id are
\* in the builder and each id that was missing has been created exactly
\* once; and after any sequence of addNodes and addNodeAndLinks calls no
\* two nodes have the same id.
CreatedStep ==
    /\ (Called /\ last'.op = "addNodeAndLinks" /\ ~m_finalized)
          => /\ last'.res # "out_of_range"
             /\ last'.res = "ok"
                  => \A nid \in {last'.src}
                                  \cup {last'.links[i].id : i \in DOMAIN last'.links} :
                        /\ nid \in DOMAIN m_idNodes'
                        /\ nid \notin DOMAIN m_idNodes
                             => NodesOfId(nodes', nid) = NodesOfId(nodes, nid) + 1
    /\ Alive' => UniqueIds'
CreatedOnce == [][CreatedStep]_vars

\* C10: in the node collection that finalize() returns every link A -> B
\* has its back link B -> A in the links of B, and when all links were added
\* as undirected the two have the same weight.
BackLinks ==
    (last.op = "finalize")
        => \A i \in DOMAIN nodes : \A k \in DOMAIN nodes[i].links :
              LET a == nodes[i].addr
                  ab == nodes[i].links[k]
              IN  /\ \E w \in ArcWeights : ArcCount(nodes, ab.dest, a, w) > 0
                  /\ ~m_directed
                       => ArcCount(nodes, ab.dest, a, ab.weight)
                            = ArcCount(nodes, a, ab.dest, ab.weight)

\* C11: a Graph created with the shuffle flag set shuffles: a node added
\* afterwards may be placed at the front of the collection as well as at
\* the back; a Graph created without it always appends at the back, so the
\* nodes appear in the order of their first addition.
FrontPlacing ==
    \E b \in RangeEnds :
        /\ b + 2 \in RangeEnds
        /\ ENABLED (addNodesRange(b, b + 2) /\ nodes' # <<>>
                       /\ Head(nodes').id = b + 1)
ShuffledAsCreated ==
    (last.op = "Graph") => (FrontPlacing <=> last.shuffle)

\* The nodes, self weights and links (as a multiset per node) of ns1 and
\* ns2 are the same, whatever the order of the nodes and of their links.
SameContent(ns1, ns2) ==
    /\ Addrs(ns1) = Addrs(ns2)
    /\ \A a \in Addrs(ns1) :
          /\ NodeAt(ns1, a).id = NodeAt(ns2, a).id
          /\ NodeAt(ns1, a).sweight = NodeAt(ns2, a).sweight
          /\ \A d \in Addrs(ns1), w \in ArcWeights :
                ArcCount(ns1, a, d, w) = ArcCount(ns2, a, d, w)

\* What the call does to the graph of the current state without shuffling.
UnshuffledOutcomes(call) ==
    IF call.op \in NodeOps THEN acsAddNodes(Here, AskedIds(call), FALSE)
    ELSE IF call.op = "addNodeLinks"
    THEN acsAddNodeLinks(Here, call.dir, call.src, call.links, FALSE)
    ELSE acsAddNodeAndLinks(Here, call.dir, call.src, call.links, FALSE)

\* C12: whatever the random choices, a call on a graph with shuffling
\* enabled ends as the same call with shuffling disabled does, with the
\* same node ids, the same self weights and per node the same multiset of
\* (destination, weight) links; in particular the first link of a node that
\* has no links yet is added.
ShuffleStep ==
    (Called /\ m_shuffle /\ last'.res # "domain_error")
        => \E o \in UnshuffledOutcomes(last') :
              /\ o.res = last'.res
              /\ SameContent(o.nodes, nodes')
ShuffleKeepsContent == [][ShuffleStep]_vars

(***************************************************************************)
(* Hierarchy::unwrap (src/export/types.h)                                  *)
(*                                                                         *)
(* The items are nodes (leaf = TRUE, descs() is nullptr) and clusters; a   *)
(* cluster has the public member des, every item the public member owners. *)
(* Both are vectors in the code and are modelled as sets: no entry is      *)
(* repeated.  unwrap() reads nothing else, so that it can be called on any *)
(* clusters a caller has linked up, consistent or not.  Descendants point  *)
(* down: the des of a cluster are items of a lower level.                  *)
(*                                                                         *)
(* Share is a float in the code; the model computes with exact fractions   *)
(* <<numerator, denominator>> in lowest terms.                             *)
(***************************************************************************)
RECURSIVE GCD(_, _)
GCD(a, b) == IF b = 0 THEN a ELSE GCD(b, a % b)

Frac(n, d) == LET g == GCD(n, d) IN <<n \div g, d \div g>>
FZero == Frac(0, 1)
FOne == Frac(1, 1)
FAdd(x, y) == Frac(x[1] * y[2] + y[1] * x[2], x[2] * y[2])
FMul(x, y) == Frac(x[1] * y[1], x[2] * y[2])
FDivInt(x, k) == Frac(x[1], x[2] * k)
FLeq(x, y) == x[1] * y[2] <= y[1] * x[2]

NodeItem(i) == [leaf |-> TRUE, id |-> i]
ClusterItem(i) == [leaf |-> FALSE, id |-> i]

\* il.first->descs(): the des of a cluster, nullptr (no set) for a node.
HasDescs(x) == ~x.leaf

\* Faulty variant of OwnersShare: the whole share goes to every descendant.
OwnersShareUndivided(share, owners) == share

\* il.second / (!cl->owners.empty() ? cl->owners.size() : 1)
OwnersShare(share, owners) ==
    FDivInt(share, IF owners # {} THEN Cardinality(owners) ELSE 1)

\* The sum of f[x] over the x of S.
RECURSIVE SumOver(_, _)
SumOver(f, S) ==
    IF S = {} THEN FZero
    ELSE LET x == CHOOSE y \in S : TRUE
         IN  FAdd(f[x], SumOver(f, S \ {x}))

\* Faulty variant: the share of the call replaces the entry.
AddShareOverwritten(old, share) == share

\* clNodes[(Node*)il.first] += il.second
AddShare(old, share) == FAdd(old, share)

\* One pass of the while loop of unwrap(): the next level levn and the
\* extended clNodes.
UnwrapLevel(h, lev, cn) ==
    LET cls == {x \in DOMAIN lev : HasDescs(x)}
        lfs == {x \in DOMAIN lev : ~HasDescs(x)}
        nxt == UNION {h.des[x] : x \in cls}
        part(d) == [x \in cls |-> OwnersShare(lev[x], h.owners[d])]
    IN  [lev |-> [d \in nxt |-> SumOver(part(d), {x \in cls : d \in h.des[x]})],
         clNodes |-> [n \in (DOMAIN cn) \cup lfs |->
                         IF n \in lfs
                         THEN AddShare(IF n \in DOMAIN cn THEN cn[n] ELSE FZero,
                                       lev[n])
                         ELSE cn[n]]]

RECURSIVE UnwrapLoop(_, _, _)
UnwrapLoop(h, lev, cn) ==
    IF DOMAIN lev = {} THEN cn
    ELSE LET s == UnwrapLevel(h, lev, cn)
         IN  UnwrapLoop(h, s.lev, s.clNodes)

\* Hierarchy::unwrap(cl, clNodes): clNodes as the call leaves it.
unwrap(h, cl, cn) == UnwrapLoop(h, [x \in {cl} |-> FOne], cn)

\* The clusters and nodes a caller has linked up: two nodes, two clusters
\* above them and a top cluster above those; node 0 may also hang directly
\* below the top cluster.  des and owners are chosen independently, so that
\* owners that miss in des, des that miss in owners and items without
\* owners all occur.  The root clusters are the clusters without owners.
SmallNodes == {NodeItem(0), NodeItem(1)}
Level1 == {ClusterItem(0), ClusterItem(1)}
Level2 == {ClusterItem(2)}
SmallDes ==
    {[c \in Level1 \cup Level2 |-> IF c \in Level2 THEN dt
                                   ELSE IF c.id = 0 THEN d0 ELSE d1] :
        d0 \in SUBSET SmallNodes, d1 \in SUBSET SmallNodes,
        dt \in SUBSET (Level1 \cup {NodeItem(0)})}
SmallOwners ==
    {[x \in SmallNodes \cup Level1 \cup Level2 |->
         IF x \in Level2 THEN {}
         ELSE IF x \in Level1 THEN (IF x.id = 0 THEN o0 ELSE o1)
         ELSE IF x.id = 0 THEN n0 ELSE n1] :
        o0 \in SUBSET Level2, o1 \in SUBSET Level2,
        n0 \in SUBSET (Level1 \cup Level2), n1 \in SUBSET Level1}
SmallHierarchies ==
    {[nodes |-> SmallNodes, cls |-> Level1 \cup Level2, des |-> d, owners |-> o,
      root |-> {c \in Level1 \cup Level2 : o[c] = {}}] :
        d \in SmallDes, o \in SmallOwners}

\* The hierarchy of the pentagon run (README): clusters 0..4 hold two nodes
\* each, the root clusters 5..9 two of those clusters each.
PentagonDes(c) ==
    CASE c = 0 -> {NodeItem(0), NodeItem(1)}
      [] c = 1 -> {NodeItem(0), NodeItem(2)}
      [] c = 2 -> {NodeItem(1), NodeItem(3)}
      [] c = 3 -> {NodeItem(2), NodeItem(4)}
      [] c = 4 -> {NodeItem(3), NodeItem(4)}
      [] c = 5 -> {ClusterItem(0), ClusterItem(1)}
      [] c = 6 -> {ClusterItem(0), ClusterItem(2)}
      [] c = 7 -> {ClusterItem(1), ClusterItem(3)}
      [] c = 8 -> {ClusterItem(2), ClusterItem(4)}
      [] c = 9 -> {ClusterItem(3), ClusterItem(4)}
PentagonOwners(x) ==
    IF x.leaf THEN {ClusterItem(c) : c \in {k \in 0..4 : x \in PentagonDes(k)}}
    ELSE CASE x.id = 0 -> {ClusterItem(5), ClusterItem(6)}
           [] x.id = 1 -> {ClusterItem(5), ClusterItem(7)}
           [] x.id = 2 -> {ClusterItem(6), ClusterItem(8)}
           [] x.id = 3 -> {ClusterItem(7), ClusterItem(9)}
           [] x.id = 4 -> {ClusterItem(8), ClusterItem(9)}
           [] OTHER -> {}
Pentagon ==
    [nodes |-> {NodeItem(i) : i \in 0..4},
     cls |-> {ClusterItem(i) : i \in 0..9},
     des |-> [c \in {ClusterItem(i) : i \in 0..9} |-> PentagonDes(c.id)],
     owners |-> [x \in {NodeItem(i) : i \in 0..4} \cup {ClusterItem(i) : i \in 0..9}
                    |-> PentagonOwners(x)],
     root |-> {ClusterItem(i) : i \in 5..9}]

\* A Graph on which nothing has been called.
GraphIdle ==
    /\ weighted = TRUE
    /\ ndebug = FALSE
    /\ nodes = <<>>
    /\ m_idNodes = EmptyMap
    /\ m_finalized = FALSE
    /\ m_directed = FALSE
    /\ m_shuffle = FALSE
    /\ last = CallRec("Graph", FALSE, FALSE, 0, <<>>, <<>>, "ok")
    /\ ncalls = 0
    /\ dirCalled = FALSE
    /\ dirCalledOpen = FALSE
    /\ finalizeCalled = FALSE

\* A caller unwraps into a new map or into the map of an earlier call; one
\* map takes the clusters of a first and of a second call.
UnwrapNos == 1..2

UnwrapInit ==
    /\ GraphIdle
    /\ ClusterIdle
    /\ ClientIdle
    /\ TraverseIdle /\ NoClusterMade
    /\ hier \in SmallHierarchies \cup {Pentagon}
    /\ clNodes = NoShares
    /\ ucl = <<>>

\* hier.unwrap(cl, clNodes), clNodes being a new map (fresh) or the map of
\* the call before.
unwrapCall(cl, fresh) ==
    /\ fresh \/ ucl # <<>>
    /\ ucl' = IF fresh THEN <<cl>> ELSE Append(ucl, cl)
    /\ Len(ucl') \in UnwrapNos
    /\ clNodes' = unwrap(hier, cl, IF fresh THEN NoShares ELSE clNodes)
    /\ UNCHANGED <<hier, vars, cvars, fvars, tvars, ivars>>

UnwrapNext == \E cl \in hier.cls, fresh \in BOOLEAN : unwrapCall(cl, fresh)

UnwrapSpec == UnwrapInit /\ [][UnwrapNext]_<<vars, hvars, cvars, fvars, tvars, ivars>>

(***************************************************************************)
(* Properties of unwrap                                                    *)
(***************************************************************************)
\* clNodes is what one unwrap() call into a new map has returned.
UnwrappedOne == Len(ucl) = 1

\* n is x itself or is reached from x through descendants.
RECURSIVE Reach(_, _, _)
Reach(h, x, n) ==
    \/ x = n
    \/ HasDescs(x) /\ \E d \in h.des[x] : Reach(h, d, n)

\* The sum over all descent paths from x to n of the product of
\* 1 / |owners(y)| over the items y of the path below x, an empty owners
\* list counting as 1.
RECURSIVE PathShare(_, _, _)
PathShare(h, x, n) ==
    IF x = n THEN FOne
    ELSE IF ~HasDescs(x) THEN FZero
    ELSE SumOver([d \in h.des[x] |->
                     FMul(Frac(1, IF h.owners[d] = {} THEN 1
                                  ELSE Cardinality(h.owners[d])),
                          PathShare(h, d, n))],
                 h.des[x])

\* C13: unwrap(c) into an empty map yields, for each leaf node n reached
\* from c through descendants, the sum over all descent paths from c to n
\* of the product of 1 / |owners(x)| over the items x of the path below c
\* (an empty owners list counting as 1); the other nodes are absent.
UnwrapIsPathSum ==
    UnwrappedOne
        => /\ DOMAIN clNodes = {n \in hier.nodes : Reach(hier, ucl[1], n)}
           /\ \A n \in DOMAIN clNodes : clNodes[n] = PathShare(hier, ucl[1], n)

\* The top cluster was unwrapped; node 0 is reached directly and through a
\* cluster where it is one of two owners' items, node 1 is not reached.
UnwrapIsPathSumSeen ==
    /\ UnwrappedOne /\ ucl[1] \in Level2 /\ hier \in SmallHierarchies
    /\ NodeItem(0) \in hier.des[ucl[1]]
    /\ \E c \in Level1 : c \in hier.des[ucl[1]] /\ NodeItem(0) \in hier.des[c]
    /\ Cardinality(hier.owners[NodeItem(0)]) = 2
    /\ DOMAIN clNodes = {NodeItem(0)}
    /\ clNodes[NodeItem(0)] \notin {FZero, FOne}

\* Owners and descendants agree, and no cluster is empty.
Consistent(h) ==
    \A c \in h.cls, x \in h.nodes \cup h.cls :
        (x \in h.des[c]) <=> (c \in h.owners[x])
WellFormed(h) == Consistent(h) /\ \A c \in h.cls : h.des[c] # {}

SharesSum == SumOver(clNodes, DOMAIN clNodes)

\* C14: for every cluster c of a hierarchy the shares of unwrap(c), started
\* from an empty map, sum to 1 over the nodes of the result.
SharesSumToOne ==
    (UnwrappedOne /\ WellFormed(hier)) => SharesSum = FOne

\* No item reached from x has more than one owner.
NoOverlapBelow(h, x) ==
    \A y \in h.nodes \cup h.cls :
        (y # x /\ Reach(h, x, y)) => Cardinality(h.owners[y]) <= 1

\* C14, restated: for every cluster c of a hierarchy whose owners and
\* descendants agree and whose clusters are not empty, the shares of
\* unwrap(c) sum to more than 0 and to at most the number of nodes of the
\* result, and to exactly that number when no item below c has more than
\* one owner.
SharesSumBounded ==
    (UnwrappedOne /\ WellFormed(hier))
        => /\ SharesSum # FZero
           /\ FLeq(SharesSum, Frac(Cardinality(DOMAIN clNodes), 1))
           /\ NoOverlapBelow(hier, ucl[1])
                => SharesSum = Frac(Cardinality(DOMAIN clNodes), 1)

\* A cluster of two nodes that have no other owner was unwrapped: the
\* shares sum to 2.
SharesSumBoundedSeen ==
    /\ UnwrappedOne /\ WellFormed(hier)
    /\ NoOverlapBelow(hier, ucl[1])
    /\ Cardinality(DOMAIN clNodes) = 2
    /\ SharesSum = Frac(2, 1)

\* C15: when owners and descendants are mutually consistent, every share of
\* unwrap(c), started from an empty map, is greater than 0 and at most 1.
SharesInUnit ==
    (UnwrappedOne /\ Consistent(hier))
        => \A n \in DOMAIN clNodes :
              clNodes[n] # FZero /\ FLeq(FZero, clNodes[n]) /\ FLeq(clNodes[n], FOne)

\* The top cluster of a consistent hierarchy was unwrapped in which node 0 is
\* reached through both clusters below: its two halves add up to 1.
SharesInUnitSeen ==
    /\ UnwrappedOne /\ Consistent(hier) /\ ucl[1] \in Level2
    /\ hier.des[ucl[1]] = Level1
    /\ \A c \in Level1 : NodeItem(0) \in hier.des[c]
    /\ clNodes[NodeItem(0)] = FOne
    /\ NodeItem(1) \in DOMAIN clNodes /\ clNodes[NodeItem(1)] = FOne

\* The root clusters in which unwrap() gives the node n the share f.
RootsWithShare(h, n, f) ==
    {r \in h.root : LET cn == unwrap(h, r, NoShares)
                    IN  n \in DOMAIN cn /\ cn[n] = f}

\* The clusters of the nodes: five of two nodes each, every node in two of
\* them, and five root clusters above.
PentagonShape(h) ==
    LET lev1 == {c \in h.cls : h.des[c] \subseteq h.nodes}
    IN  /\ Cardinality(lev1) = 5
        /\ \A c \in lev1 : Cardinality(h.des[c]) = 2
        /\ \A n \in h.nodes : Cardinality({c \in lev1 : n \in h.des[c]}) = 2
        /\ \A c \in lev1, d \in lev1 : h.des[c] = h.des[d] => c = d
        /\ Cardinality(h.root) = 5
        /\ h.root \cap lev1 = {}

\* C17: for the pentagon the hierarchy has 5 overlapping clusters of two
\* nodes each on level 1 and 5 root clusters, and unwrapping the root
\* clusters gives every node the share 1/2 in exactly 2 root clusters and
\* the share 1/4 in each of two further ones.
PentagonHalfInTwo ==
    (hier = Pentagon)
        => /\ PentagonShape(hier)
           /\ \A n \in hier.nodes :
                 /\ Cardinality(RootsWithShare(hier, n, Frac(1, 2))) = 2
                 /\ Cardinality(RootsWithShare(hier, n, Frac(1, 4))) = 2

\* C17, restated: for the pentagon the hierarchy has 5 overlapping clusters
\* of two nodes each on level 1 and 5 root clusters, and unwrapping the root
\* clusters gives every node the share 1/2 in exactly 1 root cluster, the
\* share 1/4 in each of two further ones and no share in the other two.
PentagonHalfInOne ==
    (hier = Pentagon)
        => /\ PentagonShape(hier)
           /\ \A n \in hier.nodes :
                 /\ Cardinality(RootsWithShare(hier, n, Frac(1, 2))) = 1
                 /\ Cardinality(RootsWithShare(hier, n, Frac(1, 4))) = 2
                 /\ Cardinality({r \in hier.root :
                        n \notin DOMAIN unwrap(hier, r, NoShares)}) = 2
           /\ (UnwrappedOne /\ ucl[1] \in hier.root)
                 => /\ Cardinality(DOMAIN clNodes) = 3
                    /\ Cardinality({n \in DOMAIN clNodes : clNodes[n] = Frac(1, 2)}) = 1
                    /\ Cardinality({n \in DOMAIN clNodes : clNodes[n] = Frac(1, 4)}) = 2

\* Root cluster 5 of the pentagon was unwrapped: node 0 has one half, the
\* nodes 1 and 2 a quarter each (the "communities" of the README).
PentagonUnwrapped ==
    /\ hier = Pentagon /\ UnwrappedOne /\ ucl[1] = ClusterItem(5)
    /\ clNodes[NodeItem(0)] = Frac(1, 2)
    /\ clNodes[NodeItem(1)] = Frac(1, 4)
    /\ clNodes[NodeItem(2)] = Frac(1, 4)

\* The share of the node n in unwrap(c) started from an empty map; zero for
\* a node that is not in the result.
ShareIn(h, c, n) ==
    LET cns == unwrap(h, c, NoShares)
    IN  IF n \in DOMAIN cns THEN cns[n] ELSE FZero

\* C29: unwrap adds to the shares already in the passed map and never
\* removes or overwrites an entry: after unwrapping c1 and then c2 into the
\* same map, the map holds exactly the nodes of either result, each with the
\* sum of its share in c1 and its share in c2, whatever the order.
UnwrapAccumulates ==
    (Len(ucl) = 2) =>
        /\ DOMAIN clNodes = DOMAIN unwrap(hier, ucl[1], NoShares)
                              \cup DOMAIN unwrap(hier, ucl[2], NoShares)
        /\ \A n \in DOMAIN clNodes :
              clNodes[n] = FAdd(ShareIn(hier, ucl[1], n), ShareIn(hier, ucl[2], n))
        /\ clNodes = unwrap(hier, ucl[1], unwrap(hier, ucl[2], NoShares))

\* Two different clusters were unwrapped into one map; a node has a share in
\* both of them and another node in the first one only.
UnwrapAccumulatesSeen ==
    /\ Len(ucl) = 2 /\ ucl[1] # ucl[2]
    /\ \E n \in DOMAIN clNodes :
          /\ ShareIn(hier, ucl[1], n) # FZero
          /\ ShareIn(hier, ucl[2], n) # FZero
          /\ clNodes[n] = FAdd(ShareIn(hier, ucl[1], n), ShareIn(hier, ucl[2], n))
    /\ \E n \in DOMAIN clNodes :
          ShareIn(hier, ucl[1], n) # FZero /\ ShareIn(hier, ucl[2], n) = FZero

\* The call passes self links only (a node's self weight declared on a line
\* of an /Edges or an /Arcs section).
SelfLinksOnly(call) ==
    /\ call.op \in LinkOps
    /\ call.links # <<>>
    /\ \A i \in DOMAIN call.links : call.links[i].id = call.src

\* What the call does to the graph of the current state when made with the
\* other value of DIRECTED.
OtherSectionOutcomes(call) ==
    IF call.op = "addNodeLinks"
    THEN acsAddNodeLinks(Here, ~call.dir, call.src, call.links, m_shuffle)
    ELSE acsAddNodeAndLinks(Here, ~call.dir, call.src, call.links, m_shuffle)

\* C27: in a weighted graph, declaring a node's self link as an edge and
\* declaring it as an arc give the same result: the same self weight, the
\* same links and the same directed status handed to the clustering.
EdgeArcStep ==
    (Called /\ weighted /\ SelfLinksOnly(last') /\ last'.res # "domain_error")
        => /\ \E o \in OtherSectionOutcomes(last') :
                 o.res = last'.res /\ SameContent(o.nodes, nodes')
           /\ m_directed' = DirectedAfter(~last'.dir)
SelfLinkEdgeAsArc == [][EdgeArcStep]_vars

\* C30: reinit(n, s) on a Graph in any state, also after finalize(), leaves
\* it as a newly constructed Graph(n, s): no nodes, empty id map, not
\* directed, shuffle setting s, and open for extension.
ReinitAsNew ==
    (last.op = "reinit") =>
        /\ nodes = <<>>
        /\ m_idNodes = EmptyMap
        /\ ~m_directed
        /\ m_shuffle = last.shuffle
        /\ ~m_finalized

\* ---------------------------------------------------------------- cluster()
\* cluster() (part_003:121-133) builds a HierarchyImpl, whose definition
\* (hierarchy.hpp) is not part of the sources at hand: only its declaration,
\* its caller and the README's log are.  The folding loop below follows the
\* design description of the clustering engine (sections 4.3.3 - 4.3.6 and the
\* scenarios S5, S6).  Gains and modularity gains are computed from link
\* weights there; here every iteration takes any gains of the pairs of the
\* level and any modularity gain from small ranges.  The PASSIVE flags, which
\* depend on the weights of the items, are not followed.

\* The sizes of the input graphs.
NodeCounts == 1..3
\* The gains of a pair of items: not positive, positive, higher.
GainValues == 0..2
\* The values of modProfitMarg and of the modularity gain of an iteration.
Margins == -1..1
DMods == -1..1

Pairs(L) == {p \in SUBSET L : Cardinality(p) = 2}
GainOf(g, a, b) == g[{a, b}]
MaxOf(S) == CHOOSE m \in S : \A x \in S : x <= m

\* 4.3.3 step 1: the maximum gain of an item and the neighbours achieving it.
GMax(g, L, a) ==
    IF L \ {a} = {} THEN 0 ELSE MaxOf({GainOf(g, a, b) : b \in L \ {a}})
Cands(g, L, a) ==
    IF GMax(g, L, a) > 0
    THEN {b \in L \ {a} : GainOf(g, a, b) = GMax(g, L, a)}
    ELSE {}

\* 4.3.3 step 2: the relation is mutual.
MutualBest(g, L, a, b) ==
    a # b /\ b \in Cands(g, L, a) /\ a \in Cands(g, L, b)
AllMutual(g, L, S) ==
    \A a \in S, b \in S : a # b => MutualBest(g, L, a, b)

\* 4.3.3 step 3, strict-mutual mode: a cluster forms from a set S iff every
\* pair in S is mutual-best.
StrictGroups(g, L) ==
    {S \in SUBSET L : /\ Cardinality(S) >= 2
                      /\ AllMutual(g, L, S)
                      /\ \A x \in L \ S : ~AllMutual(g, L, S \cup {x})}

\* 4.3.3 step 3, quasi-mutual mode: chains of mutual pairs are allowed.
RECURSIVE ChainOf(_, _, _)
ChainOf(g, L, S) ==
    LET T == S \cup {b \in L : \E a \in S : MutualBest(g, L, a, b)}
    IN  IF T = S THEN S ELSE ChainOf(g, L, T)
QuasiGroups(g, L) ==
    {ChainOf(g, L, {a}) : a \in {x \in L : \E b \in L : MutualBest(g, L, x, b)}}

Groups(g, L, f) == IF f THEN QuasiGroups(g, L) ELSE StrictGroups(g, L)

\* 4.3.5: the unattached items with a positive maximum gain, the groups that
\* hold a best neighbour of such an item, and the ways to assign each item
\* that has such a group into one of them.
NonMutual(g, L, G) == {x \in L \ UNION G : Cands(g, L, x) # {}}
Targets(g, L, G, x) == {S \in G : Cands(g, L, x) \cap S # {}}
Propagated(g, L, G) == {x \in NonMutual(g, L, G) : Targets(g, L, G, x) # {}}
Assignments(g, L, G) ==
    {asg \in [Propagated(g, L, G) -> G] :
        \A x \in DOMAIN asg : asg[x] \in Targets(g, L, G, x)}

\* 4.3.4 step 1: a fresh id for the cluster of every group.
FreshIds(h, G) ==
    CHOOSE f \in [G -> Cardinality(h.cls)..(Cardinality(h.cls) + Cardinality(G) - 1)] :
        \A S \in G, T \in G : f[S] = f[T] => S = T

\* The descendants of the new clusters: the group and the items assigned
\* into it.
NewDes(h, G, asg) ==
    LET id == FreshIds(h, G)
        grp(c) == CHOOSE S \in G : ClusterItem(id[S]) = c
    IN  [c \in {ClusterItem(id[S]) : S \in G} |->
            grp(c) \cup {x \in DOMAIN asg : asg[x] = grp(c)}]

\* Faulty variant: the members are not told their new owner.
AddOwnersForgotten(own, x, nd) == own

\* 4.3.4 step 1: for each m in S, add the new cluster to m.owners.
AddOwners(own, x, nd) == own \cup {c \in DOMAIN nd : x \in nd[c]}

\* 4.3.4, 4.3.5: the hierarchy with the clusters of the groups added.
Materialize(h, G, asg) ==
    LET nd == NewDes(h, G, asg)
        cls2 == h.cls \cup DOMAIN nd
    IN  [nodes  |-> h.nodes,
         cls    |-> cls2,
         des    |-> [c \in cls2 |-> IF c \in DOMAIN nd THEN nd[c] ELSE h.des[c]],
         owners |-> [x \in h.nodes \cup cls2 |->
                        IF x \in DOMAIN nd THEN {}
                        ELSE AddOwners(h.owners[x], x, nd)],
         root   |-> h.root]

\* 4.3.5: the new clusters and the items promoted unchanged.
NextLevel(L, nd) == (DOMAIN nd) \cup (L \ UNION {nd[c] : c \in DOMAIN nd})

\* 4.3.6: a level of a single cluster.
SingleCluster(h, L) == Cardinality(L) = 1 /\ L \subseteq h.cls

\* The input: Nodes moved into the Hierarchy, nothing clustered.
InputHierarchy(n) ==
    [nodes  |-> {NodeItem(i) : i \in 0..(n - 1)},
     cls    |-> {},
     des    |-> EmptyMap,
     owners |-> [x \in {NodeItem(i) : i \in 0..(n - 1)} |-> {}],
     root   |-> {}]

ClusterInit ==
    /\ GraphIdle
    /\ ClientIdle
    /\ TraverseIdle /\ NoClusterMade
    /\ clNodes = NoShares
    /\ ucl = <<>>
    /\ \E n \in NodeCounts : hier = InputHierarchy(n)
    /\ phase = "folding"
    /\ level = hier.nodes
    /\ fast \in BOOLEAN
    /\ modProfitMarg \in Margins
    /\ dmod = 0
    /\ gains = EmptyMap
    /\ prevLevel = {}
    /\ formed = {}

\* One folding iteration with the gains g of the pairs, the assignment asg of
\* the propagated items and the modularity gain d.  A gain of at most
\* modProfitMarg ends the loop without folding (S6); otherwise the level is
\* folded, and a level of a single cluster ends the loop.  The clusters of
\* the final level are the root.
fold(g, d, asg) ==
    /\ phase = "folding"
    /\ LET G == Groups(g, level, fast)
           h2 == Materialize(hier, G, asg)
           lev2 == NextLevel(level, NewDes(hier, G, asg))
       IN  /\ asg \in Assignments(g, level, G)
           /\ IF d <= modProfitMarg
              THEN /\ hier' = [hier EXCEPT !.root = level \cap hier.cls]
                   /\ level' = level
                   /\ formed' = {}
                   /\ phase' = "done"
              ELSE /\ level' = lev2
                   /\ formed' = h2.cls \ hier.cls
                   /\ IF SingleCluster(h2, lev2)
                      THEN hier' = [h2 EXCEPT !.root = lev2] /\ phase' = "done"
                      ELSE hier' = h2 /\ phase' = "folding"
    /\ dmod' = d
    /\ gains' = g
    /\ prevLevel' = level
    /\ UNCHANGED <<fast, modProfitMarg, clNodes, ucl, vars, fvars, tvars,
                   ivars>>

ClusterNext ==
    \E g \in [Pairs(level) -> GainValues], d \in DMods :
        \E asg \in Assignments(g, level, Groups(g, level, fast)) : fold(g, d, asg)

ClusterSpec == ClusterInit /\ [][ClusterNext]_<<vars, hvars, cvars, fvars, tvars, ivars>>

\* ---------------------------------------------- properties of cluster()
Produced == phase = "done"

\* The sum over the root clusters of the share of the node n in unwrap(r);
\* every root cluster is unwrapped into a map of its own (part_001:219-224).
RootShares(h, n) ==
    SumOver([r \in h.root |->
                LET cns == unwrap(h, r, NoShares)
                IN  IF n \in DOMAIN cns THEN cns[n] ELSE FZero],
            h.root)

OwnersMatchDes ==
    Produced =>
        /\ \A x \in hier.nodes \cup hier.cls :
              \A o \in hier.owners[x] : o \in hier.cls /\ x \in hier.des[o]
        /\ \A c \in hier.cls : \A x \in hier.des[c] : c \in hier.owners[x]

\* A hierarchy of two levels was produced: a root cluster above a cluster
\* above nodes, one of them with two owners.
OwnersMatchDesSeen ==
    /\ Produced
    /\ \E r \in hier.root : \E c \in hier.des[r] :
          /\ c \in hier.cls
          /\ hier.owners[c] = {r}
          /\ \E n \in hier.des[c] : Cardinality(hier.owners[n]) = 2

\* C20: in strict-mutual mode (fast = false), every cluster formed in a
\* folding iteration has members that are pairwise mutual-best candidates
\* of each other at that iteration.
StrictMembersMutual ==
    ~fast => \A c \in formed : AllMutual(gains, prevLevel, hier.des[c])

(***************************************************************************)
(* The client reading a .hig file (Client::process, Client::parseLinks,    *)
(* Client::processGraph)                                                   *)
(*                                                                         *)
(* A line is a sequence of characters; positions count from 0 as in the    *)
(* code and NPOS is string::npos.  The std::string functions are modelled  *)
(* by what they do on the characters that occur: stoul and stof skip       *)
(* leading spaces, read the digits that follow and throw invalid_argument  *)
(* when there is none; substr throws out_of_range for a position behind    *)
(* the end.  Section headers are taken with their title and attribute      *)
(* values read: the text of a header is not followed.  Nothing catches an  *)
(* exception (main.cpp:103-109): the process ends with it.                 *)
(***************************************************************************)
Chars == {"0", "1", ">", ":", " ", "#"}
\* The lengths of the link lines.
LineLens == 0..4
Lines == UNION {[1..k -> Chars] : k \in LineLens}

\* string::npos, size_t(-1)
NPOS == -1
\* SYM_DIGITS_MAX = numeric_limits<float>::digits10 + 2
SYM_DIGITS_MAX == 8

At(str, pos) == str[pos + 1]
IsSpace(c) == c = " "
IsDigit(c) == c \in {"0", "1"}
MinOf(S) == CHOOSE m \in S : \A x \in S : m <= x

\* str.find_first_not_of(" \t", pos)
FindFirstNotOf(str, pos) ==
    IF pos = NPOS THEN NPOS
    ELSE LET hits == {i \in pos..(Len(str) - 1) : ~IsSpace(At(str, i))}
         IN  IF hits = {} THEN NPOS ELSE MinOf(hits)

\* str.find_first_of(" \t", pos)
FindFirstOf(str, pos) ==
    IF pos = NPOS THEN NPOS
    ELSE LET hits == {i \in pos..(Len(str) - 1) : IsSpace(At(str, i))}
         IN  IF hits = {} THEN NPOS ELSE MinOf(hits)

\* str.find(c, pos)
FindChar(str, c, pos) ==
    IF pos = NPOS THEN NPOS
    ELSE LET hits == {i \in pos..(Len(str) - 1) : At(str, i) = c}
         IN  IF hits = {} THEN NPOS ELSE MinOf(hits)

\* str.substr(pos, n) throws out_of_range when pos > size().
SubstrThrows(str, pos) == pos = NPOS \/ pos > Len(str)
Substr(str, pos, n) ==
    SubSeq(str, pos + 1, IF pos + n < Len(str) THEN pos + n ELSE Len(str))

RECURSIVE DigitsValue(_)
DigitsValue(ds) ==
    IF ds = <<>> THEN 0
    ELSE 10 * DigitsValue(SubSeq(ds, 1, Len(ds) - 1))
            + (IF ds[Len(ds)] = "0" THEN 0 ELSE 1)

\* stoul(str, &pos) and, digits being the only number characters here,
\* stof(str, &pos): ok is false for invalid_argument.
Stoul(str) ==
    LET from == IF FindFirstNotOf(str, 0) = NPOS THEN Len(str)
                ELSE FindFirstNotOf(str, 0)
        stops == {i \in from..(Len(str) - 1) : ~IsDigit(At(str, i))}
        to == IF stops = {} THEN Len(str) ELSE MinOf(stops)
    IN  [ok |-> to > from,
         val |-> DigitsValue(SubSeq(str, from + 1, to)),
         pos |-> to]

\* Faulty variant: a ':' after the destination of an unweighted link is an
\* invalid value.
TokenEndsSimple(str, pos, offs, W) == offs # pos /\ offs # NPOS

\* offs != pos && offs != string::npos && (WEIGHTED || line[pos] != ':'):
\* the destination is followed by something else than a space.
TokenEnds(str, pos, offs, W) ==
    offs # pos /\ offs # NPOS /\ (W \/ At(str, pos) # ":")

\* The while loop of parseLinks from position pos on, links being the links
\* fetched so far.
RECURSIVE ParseLoop(_, _, _, _)
ParseLoop(str, W, pos, links) ==
    IF ~(pos < Len(str)) THEN [res |-> "ok", links |-> links]
    ELSE
      LET p1 == FindFirstNotOf(str, pos)
      IN  IF SubstrThrows(str, p1) THEN [res |-> "out_of_range", links |-> links]
          ELSE
            LET did == Stoul(Substr(str, p1, SYM_DIGITS_MAX))
                p2 == p1 + did.pos
                weightAssigned == W /\ p2 < Len(str) /\ At(str, p2) = ":"
                wgt == Stoul(Substr(str, p2 + 1, SYM_DIGITS_MAX))
                p3 == IF weightAssigned THEN p2 + 1 + wgt.pos ELSE p2
                offs == FindFirstOf(str, p3)
                ln == [id |-> did.val,
                       weight |-> IF weightAssigned THEN ToWeight(wgt.val)
                                  ELSE SimpleWeight]
            IN  IF ~did.ok \/ (weightAssigned /\ ~wgt.ok)
                THEN [res |-> "invalid_argument", links |-> links]
                ELSE IF TokenEnds(str, p3, offs, W)
                THEN [res |-> "domain_error", links |-> links]
                ELSE ParseLoop(str, W, IF offs = NPOS THEN Len(str) ELSE offs,
                               Append(links, ln))

\* parseLinks up to "Store links in the Graph": the source id and the links
\* of the line, or the exception.
ParseLinks(str, W) ==
    LET nid == Stoul(str)
        pos == FindFirstNotOf(str, FindChar(str, ">", nid.pos))
    IN  IF ~nid.ok THEN [res |-> "invalid_argument", nid |-> 0, links |-> <<>>]
        ELSE IF pos = NPOS THEN [res |-> "ok", nid |-> nid.val, links |-> <<>>]
        ELSE LET r == ParseLoop(str, W, pos + 1, <<>>)
             IN  [res |-> r.res, nid |-> nid.val, links |-> r.links]

\* "Grate Graph if required": the Graph the links go to, a new one with the
\* declared nodes when there is none yet.
GraphForLinks ==
    IF m_graphPtr THEN {Here}
    ELSE LET new == [nodes |-> <<>>, idn |-> EmptyMap, res |-> "ok", ndebug |-> ndebug]
         IN  IF m_nodesStartId # ID_NONE
             THEN acsAddNodes(new, RangeIds(m_nodesStartId, m_nodesStartId + m_nodesNum),
                              GraphCtorShuffle(FALSE))
             ELSE {new}

\* Client::parseLinks<WEIGHTED>(line, directed), WEIGHTED being weighted: what
\* the call can leave behind, res being "reading" when it returns.
LinkLineOutcomes(str, directed) ==
    LET p == ParseLinks(str, weighted)
        shuffle == IF m_graphPtr THEN m_shuffle ELSE GraphCtorShuffle(FALSE)
        directedBefore == m_graphPtr /\ m_directed
        Left(o, dir, res) ==
            [nodes |-> o.nodes, idn |-> o.idn, ndebug |-> o.ndebug,
             directed |-> dir, shuffle |-> shuffle, res |-> res]
    IN  UNION {
          IF g.res # "ok" THEN {Left(g, directedBefore, g.res)}
          ELSE IF p.res # "ok" THEN {Left(g, directedBefore, p.res)}
          ELSE IF p.links = <<>> THEN {Left(g, directedBefore, "reading")}
          ELSE IF validateExtension # "ok"
          THEN {Left(g, directedBefore, validateExtension)}
          ELSE { Left(o, directedBefore \/ directed,
                      IF o.res = "ok" THEN "reading" ELSE o.res)
                 : o \in (IF m_nodesStartId # ID_NONE
                          THEN acsAddNodeLinks(g, directed, p.nid, p.links, shuffle)
                          ELSE acsAddNodeAndLinks(g, directed, p.nid, p.links, shuffle)) }
          : g \in GraphForLinks }

\* The members after a parseLinks call that left o.
LinkLineLeft(o) ==
    /\ nodes' = o.nodes
    /\ m_idNodes' = o.idn
    /\ ndebug' = o.ndebug
    /\ m_directed' = o.directed
    /\ m_shuffle' = o.shuffle
    /\ m_graphPtr' = TRUE
    /\ pres' = o.res

parseLinks(str, directed) ==
    \E o \in LinkLineOutcomes(str, directed) : LinkLineLeft(o)

\* One pass of the while(getline) loop of Client::process for a line that is
\* not a section header.
readLine(str) ==
    /\ pres = "reading"
    /\ line' = str
    /\ nread' = nread + 1
    /\ LET pos == FindFirstNotOf(str, 0)
       IN  IF pos = NPOS \/ At(str, pos) = "#" \/ sect \notin {"EDGES", "ARCS"}
           THEN UNCHANGED <<nodes, m_idNodes, ndebug, m_directed, m_shuffle,
                            m_graphPtr, pres>>
           ELSE parseLinks(str, sect = "ARCS")
    /\ UNCHANGED <<weighted, m_finalized, last, ncalls, dirCalled, dirCalledOpen,
                   finalizeCalled, sect, m_nodesNum, m_nodesStartId, heads,
                   handed>>
    /\ UNCHANGED <<hvars, cvars, tvars, ivars>>

\* The section headers: the title in lowercase and the attribute values the
\* header gives; hasW, hasNum and hasStart tell whether the value is there.
Titles == {"graph", "nodes", "edges", "arcs", "vertices", ""}
NodesNums == 1..2
Headers ==
    [title : {"graph"}, hasW : BOOLEAN, w : BOOLEAN,
     hasNum : {FALSE}, num : {1}, hasStart : {FALSE}, start : {0}]
    \cup [title : {"nodes"}, hasW : {FALSE}, w : {TRUE},
          hasNum : {TRUE}, num : NodesNums, hasStart : BOOLEAN, start : {0}]
    \cup [title : Titles \ {"graph"}, hasW : {FALSE}, w : {TRUE},
          hasNum : {FALSE}, num : {1}, hasStart : {FALSE}, start : {0}]

\* if(sect != FileSection::NONE)
\* Faulty variant of GraphAllowed: the Graph section is taken anywhere.
GraphAllowedAnywhere(s) == TRUE

GraphAllowed(s) == s = "NONE"

\* if(sect != FileSection::NONE && sect != FileSection::GRAPH)
NodesAllowed(s) == s \in {"NONE", "GRAPH"}

\* One pass of the while(getline) loop of Client::process for a section
\* header.
readHeader(h) ==
    /\ pres = "reading"
    /\ nread' = nread + 1
    /\ line' = <<"/", h.title>>
    /\ heads' = Append(heads, h.title)
    /\ IF h.title = ""
       THEN pres' = "domain_error" /\ UNCHANGED <<sect, weighted, m_nodesNum, m_nodesStartId>>
       ELSE IF h.title = "graph"
       THEN IF ~GraphAllowed(sect)
            THEN pres' = "domain_error"
                 /\ UNCHANGED <<sect, weighted, m_nodesNum, m_nodesStartId>>
            ELSE /\ sect' = "GRAPH"
                 /\ weighted' = IF h.hasW THEN h.w ELSE weighted
                 /\ UNCHANGED <<pres, m_nodesNum, m_nodesStartId>>
       ELSE IF h.title = "nodes"
       THEN IF ~NodesAllowed(sect)
            THEN pres' = "domain_error"
                 /\ UNCHANGED <<sect, weighted, m_nodesNum, m_nodesStartId>>
            ELSE /\ sect' = "NODES"
                 /\ m_nodesNum' = IF h.hasNum THEN h.num ELSE m_nodesNum
                 /\ m_nodesStartId' = IF h.hasNum /\ h.hasStart THEN h.start
                                      ELSE m_nodesStartId
                 /\ UNCHANGED <<pres, weighted>>
       ELSE IF h.title = "edges"
       THEN sect' = "EDGES" /\ UNCHANGED <<pres, weighted, m_nodesNum, m_nodesStartId>>
       ELSE IF h.title = "arcs"
       THEN sect' = "ARCS" /\ UNCHANGED <<pres, weighted, m_nodesNum, m_nodesStartId>>
       ELSE pres' = "out_of_range" /\ UNCHANGED <<sect, weighted, m_nodesNum, m_nodesStartId>>
    /\ UNCHANGED <<ndebug, nodes, m_idNodes, m_finalized, m_directed, m_shuffle,
                   last, ncalls, dirCalled, dirCalledOpen, finalizeCalled,
                   m_graphPtr, handed>>
    /\ UNCHANGED <<hvars, cvars, tvars, ivars>>

\* The end of the file: Client::processGraph<WEIGHTED>().  What processNodes
\* gets is kept in handed; the Graph is deleted after it.
endOfFile ==
    /\ pres = "reading"
    /\ IF ~m_graphPtr
       THEN /\ pres' = "domain_error"
            /\ UNCHANGED <<m_idNodes, m_finalized, m_graphPtr, handed>>
       ELSE /\ m_idNodes' = EmptyMap
            /\ m_finalized' = TRUE
            /\ handed' = <<[nodes |-> nodes, symmetric |-> ~m_directed]>>
            /\ m_graphPtr' = FALSE
            /\ pres' = "clustered"
    /\ UNCHANGED <<weighted, ndebug, nodes, m_directed, m_shuffle, last, ncalls,
                   dirCalled, dirCalledOpen, finalizeCalled, sect, m_nodesNum,
                   m_nodesStartId, line, nread, heads>>
    /\ UNCHANGED <<hvars, cvars, tvars, ivars>>

\* Client::process() up to its loop: weighted = true, the members reset.
ProcessStarted ==
    /\ GraphIdle
    /\ hier = NoHierarchy /\ clNodes = NoShares /\ ucl = <<>>
    /\ ClusterIdle /\ TraverseIdle /\ NoClusterMade
    /\ sect = "NONE" /\ m_nodesNum = 0 /\ m_nodesStartId = ID_NONE
    /\ m_graphPtr = FALSE /\ line = <<>> /\ nread = 0
    /\ pres = "reading" /\ heads = <<>> /\ handed = <<>>

\* The lines of a file besides the headers, and how many lines a file has at
\* most.
FileLines ==
    {<<>>, <<"#">>, <<"0", ">">>, <<"0", ">", "1">>, <<"1", ">", "0", ":", "1">>}
MaxRead == 3

FileInit == ProcessStarted

FileNext ==
    \/ \E h \in Headers : nread < MaxRead /\ readHeader(h)
    \/ \E str \in FileLines : nread < MaxRead /\ readLine(str)
    \/ endOfFile

FileSpec == FileInit /\ [][FileNext]_<<vars, hvars, cvars, fvars, tvars, ivars>>

\* One link line read in a links section: the headers before it have set
\* sect, weighted and the node range, and no Graph exists yet.
LineInit ==
    /\ ndebug = FALSE
    /\ nodes = <<>> /\ m_idNodes = EmptyMap
    /\ m_finalized = FALSE /\ m_directed = FALSE /\ m_shuffle = FALSE
    /\ last = CallRec("Graph", FALSE, FALSE, 0, <<>>, <<>>, "ok")
    /\ ncalls = 0
    /\ dirCalled = FALSE /\ dirCalledOpen = FALSE /\ finalizeCalled = FALSE
    /\ hier = NoHierarchy /\ clNodes = NoShares /\ ucl = <<>>
    /\ ClusterIdle /\ TraverseIdle /\ NoClusterMade
    /\ weighted \in BOOLEAN
    /\ \E links \in {"edges", "arcs"} :
          /\ sect = (IF links = "edges" THEN "EDGES" ELSE "ARCS")
          /\ \/ /\ m_nodesNum = 0 /\ m_nodesStartId = ID_NONE
                /\ heads = <<"graph", links>>
             \/ /\ m_nodesNum = 2 /\ m_nodesStartId = 0
                /\ heads = <<"graph", "nodes", links>>
          /\ nread = Len(heads)
    /\ m_graphPtr = FALSE /\ line = <<>>
    /\ pres = "reading" /\ handed = <<>>

\* Lines longer than LineLens, those of the format description among them, in
\* the characters of the model.
DocLines ==
    { <<"0", ">", "1", " ", "0", " ", " ", "#">>,
      <<"0", ">", "1", " ", "#">>,
      <<"0", ">", "1", " ", " ">>,
      <<"0", ">", "1", ":", "1">>,
      <<"0", ">", "1", ":", "1", " ", "0">>,
      <<"0", ">", "1", ":", "1", " ", "#">>,
      <<"0", ">", "1", " ", "0", ":", "1">>,
      <<"0", ">", " ", "1", ":", "1", " ", " ", "0", ":", "0">> }

\* One line is read after the headers.
LineNext == \E str \in Lines \cup DocLines : nread = Len(heads) /\ readLine(str)

LineSpec == LineInit /\ [][LineNext]_<<vars, hvars, cvars, fvars, tvars, ivars>>

(***************************************************************************)
(* Properties of the client                                                *)
(***************************************************************************)
LinkSections == {"EDGES", "ARCS"}
Exceptions == {"domain_error", "invalid_argument", "out_of_range"}

\* The line is neither empty nor a comment.
IsLinkLine(str) ==
    FindFirstNotOf(str, 0) # NPOS /\ At(str, FindFirstNotOf(str, 0)) # "#"

\* A step of the loop that handed the line to parseLinks.
LinkLineStep ==
    /\ pres = "reading" /\ nread' = nread + 1 /\ heads' = heads
    /\ sect \in LinkSections /\ IsLinkLine(line')

\* The line without its comment and without the spaces at its end.
WithoutComment(str) ==
    IF FindChar(str, "#", 0) = NPOS THEN str
    ELSE SubSeq(str, 1, FindChar(str, "#", 0))
RECURSIVE WithoutSpacesAtEnd(_)
WithoutSpacesAtEnd(str) ==
    IF str # <<>> /\ IsSpace(str[Len(str)])
    THEN WithoutSpacesAtEnd(SubSeq(str, 1, Len(str) - 1))
    ELSE str
WithoutTail(str) == WithoutSpacesAtEnd(WithoutComment(str))

\* Some node has a link or a self-weight.
SomeLink(ns) == \E i \in 1..Len(ns) : ns[i].links # <<>> \/ ns[i].sweight # 0

\* C26: a link line that ends with redundant spaces or with a '#' comment
\* leaves what the line without them leaves: the spaces and the comment are
\* ignored and exactly the links written before them are added.
LineTailIgnored ==
    [][(LinkLineStep /\ WithoutTail(line') # line' /\ IsLinkLine(WithoutTail(line')))
          => \E o \in LinkLineOutcomes(WithoutTail(line'), sect = "ARCS") :
                LinkLineLeft(o)]_vars

\* The positions (from 0) of the ':' that follow the digits of a destination.
WeightTokens(str) ==
    {i \in 1..(Len(str) - 1) :
        /\ At(str, i) = ":" /\ IsDigit(At(str, i - 1))
        /\ FindChar(str, ">", 0) # NPOS /\ FindChar(str, ">", 0) < i - 1}

\* The line without the ':weight' token at i: the token goes up to the next
\* space or the end of the line.
WithoutToken(str, i) ==
    SubSeq(str, 1, i)
        \o (IF FindFirstOf(str, i) = NPOS THEN <<>>
            ELSE SubSeq(str, FindFirstOf(str, i) + 1, Len(str)))

\* C25 as stated: in an unweighted file a link line with a destination that
\* carries a ':weight' token is rejected with an error and none of its links
\* is added.
UnweightedWeightRejected ==
    [][(LinkLineStep /\ ~weighted /\ WeightTokens(line') # {})
          => (pres' \in Exceptions /\ ~SomeLink(nodes'))]_vars

\* C25, amended: in an unweighted file the ':weight' token of a destination
\* is skipped: the line leaves what the line without the token leaves.
UnweightedWeightSkipped ==
    [][(LinkLineStep /\ ~weighted)
          => \A i \in WeightTokens(line') :
                \E o \in LinkLineOutcomes(WithoutToken(line', i), sect = "ARCS") :
                   LinkLineLeft(o)]_vars

UnweightedWeightSkippedSeen ==
    /\ ~weighted /\ sect \in LinkSections /\ nread = Len(heads) + 1
    /\ WeightTokens(line) # {} /\ Len(line) > 5
    /\ pres = "reading" /\ SomeLink(nodes)

\* A step of the loop that read a section header.
HeaderStep == pres = "reading" /\ Len(heads') = Len(heads) + 1

\* The header of the step is taken: reading goes on in its section.
Accepted(section) == pres' = "reading" /\ sect' = section

\* C24: a /Graph header is accepted only before any other header, a /Nodes
\* header only as the first header or right after /Graph, and any other
\* place of the two ends the reading with an error; /Edges and /Arcs headers
\* are accepted wherever they stand.
HeaderOrder ==
    [][HeaderStep =>
         LET title == heads'[Len(heads')]
         IN  /\ title = "graph" =>
                   IF heads = <<>> THEN Accepted("GRAPH")
                   ELSE pres' = "domain_error"
             /\ title = "nodes" =>
                   IF heads \in {<<>>, <<"graph">>} THEN Accepted("NODES")
                   ELSE pres' = "domain_error"
             /\ title = "edges" => Accepted("EDGES")
             /\ title = "arcs" => Accepted("ARCS")]_vars

HeaderOrderSeen ==
    /\ heads = <<"graph", "edges", "nodes">> /\ pres = "domain_error"
    /\ sect = "EDGES"

\* C28: a file that declares the single node 0 and has no link line
\* ("/Nodes 1 0") is processed without error: one node without links goes
\* to the clustering.
SingleNodeProcessed ==
    (/\ heads = <<"nodes">> /\ m_nodesNum = 1 /\ m_nodesStartId = 0
     /\ pres # "reading")
        => /\ pres = "clustered"
           /\ Len(handed) = 1 /\ Len(handed[1].nodes) = 1
           /\ ~SomeLink(handed[1].nodes)

(***************************************************************************)
(* The ids of the clusters (Cluster<LinksT>::m_uid)                        *)
(*                                                                         *)
(* Clustering calls run concurrently in one process, each on the links     *)
(* type of its Graph.  A call constructs its clusters one after the other; *)
(* the constructor takes the id with the atomic m_uid++ and then builds    *)
(* the members, and the constructors of different calls interleave.        *)
(***************************************************************************)
ClusteringCalls == 1..2
\* The number of clusters constructed in the process; it stays far below
\* the 2^32 ids of Id.
MaxMade == 4

\* m_uid++ on atomic<Id>: one indivisible read and increment.
PostIncrement(counter) == [value |-> counter, counter |-> counter + 1]

\* Cluster<LinksT>::Cluster(linksNum), the base initializer
\* ClusterI<LinksT>(m_uid++) of clustering call c.
takeId(c) ==
    /\ ~ctor[c].inside
    /\ Len(made) < MaxMade
    /\ LET t == ctor[c].links
           inc == PostIncrement(m_uid[t])
       IN  /\ m_uid' = [m_uid EXCEPT ![t] = inc.counter]
           /\ ctor' = [ctor EXCEPT ![c].inside = TRUE, ![c].id = inc.value]
           /\ made' = Append(made, [call |-> c, links |-> t, id |-> inc.value])
    /\ UNCHANGED <<vars, hvars, cvars, fvars, tvars>>

\* The rest of the constructor: links(), des(), m_sweight(0), m_context,
\* m_core, links.reserve(linksNum).
construct(c) ==
    /\ ctor[c].inside
    /\ ctor' = [ctor EXCEPT ![c].inside = FALSE]
    /\ UNCHANGED <<m_uid, made>>
    /\ UNCHANGED <<vars, hvars, cvars, fvars, tvars>>

IdInit ==
    /\ GraphIdle
    /\ hier = NoHierarchy /\ clNodes = NoShares /\ ucl = <<>>
    /\ ClusterIdle /\ ClientIdle /\ TraverseIdle
    /\ m_uid = [t \in LinksTypes |-> 0]
    /\ ctor \in [ClusteringCalls -> [links : LinksTypes, inside : {FALSE}, id : {0}]]
    /\ made = <<>>

IdNext ==
    \/ \E c \in ClusteringCalls : takeId(c)
    \/ \E c \in ClusteringCalls : construct(c)

IdSpec == IdInit /\ [][IdNext]_<<vars, hvars, cvars, fvars, tvars, ivars>>

\* C23: under any interleaving of concurrent clustering calls no two clusters
\* have the same id, and every cluster has an id greater than every id handed
\* out before it.
ClusterIdsGrow ==
    \A i \in 1..Len(made) : \A j \in 1..Len(made) :
        i < j => made[i].id < made[j].id

(***************************************************************************)
(* Traversing the levels of a Hierarchy (traverseNextLevel,                *)
(* resetTraversing)                                                        *)
(*                                                                         *)
(* Both are pure virtual in Hierarchy; their bodies are in the engine.     *)
(* They are modelled from their documentation and the design description:  *)
(* the state kept between the calls is the level to visit next, a call     *)
(* runs the operation on the clusters of that level in their order and     *)
(* tells whether a next level exists.                                      *)
(***************************************************************************)
MaxLevels == 3
MaxTraverse == 5
LevelSizes == 1..2

\* The levels with the given numbers of clusters, the bottom level first; the
\* clusters are named by their ids, which grow with the creation.
RECURSIVE LevelsFrom(_, _)
LevelsFrom(sizes, firstId) ==
    IF sizes = <<>> THEN <<>>
    ELSE <<[i \in 1..Head(sizes) |-> firstId + i - 1]>>
            \o LevelsFrom(Tail(sizes), firstId + Head(sizes))
LeveledHierarchies == {LevelsFrom(sz, 0) : sz \in SeqsUpTo(LevelSizes, MaxLevels)}

\* initial: the first operation call in the current level
\* Faulty variant of Initial: every call is told to be the first.
InitialAlways(i) == TRUE

Initial(i) == i = 1

\* The operation calls of one level: operation(cl, initial, params).
OperationCalls(lev) == [i \in 1..Len(lev) |-> [cl |-> lev[i], initial |-> Initial(i)]]

\* bool traverseNextLevel(TraverseOp operation, void* params)
traverseNextLevel ==
    /\ Len(tlog) < MaxTraverse
    /\ IF levels = <<>>
       THEN /\ tlog' = Append(tlog, [op |-> "traverse", calls |-> <<>>, ret |-> FALSE])
            /\ UNCHANGED m_travLevel
       ELSE LET next == m_travLevel + 1
                more == next < Len(levels)
            IN  /\ tlog' = Append(tlog, [op |-> "traverse",
                                         calls |-> OperationCalls(levels[next]),
                                         ret |-> more])
                /\ m_travLevel' = IF more THEN next ELSE 0
    /\ UNCHANGED levels
    /\ UNCHANGED <<vars, hvars, cvars, fvars, ivars>>

\* void resetTraversing()
resetTraversing ==
    /\ Len(tlog) < MaxTraverse
    /\ m_travLevel' = 0
    /\ tlog' = Append(tlog, [op |-> "reset", calls |-> <<>>, ret |-> FALSE])
    /\ UNCHANGED levels
    /\ UNCHANGED <<vars, hvars, cvars, fvars, ivars>>

TraverseInit ==
    /\ GraphIdle
    /\ hier = NoHierarchy /\ clNodes = NoShares /\ ucl = <<>>
    /\ ClusterIdle /\ ClientIdle /\ NoClusterMade
    /\ levels \in LeveledHierarchies
    /\ m_travLevel = 0
    /\ tlog = <<>>

TraverseNext == traverseNextLevel \/ resetTraversing

TraverseSpec == TraverseInit /\ [][TraverseNext]_<<vars, hvars, cvars, fvars, tvars, ivars>>

\* The k-th call starts a cycle: it is the first call, or it follows a
\* resetTraversing or a traverseNextLevel that returned false.
StartsCycle(k) == k = 1 \/ tlog[k - 1].op = "reset" \/ ~tlog[k - 1].ret

\* The level the k-th call has to visit by the calls before it: the bottom
\* level at the start of a cycle, else the level above the one of the call
\* before.
RECURSIVE LevelDue(_)
LevelDue(k) == IF StartsCycle(k) THEN 1 ELSE LevelDue(k - 1) + 1

\* C22: the traverseNextLevel calls visit the levels from the bottom to the
\* root, one level a call, none skipped or repeated within a cycle; the
\* operation is called on every cluster of the level, with the flag of the
\* first call true for the first cluster only; the call returns false when
\* all levels have been visited, and the call after it, as the call after a
\* resetTraversing, visits the bottom level.
TraverseCycles ==
    \A k \in 1..Len(tlog) :
        tlog[k].op = "traverse" =>
            IF levels = <<>> THEN tlog[k].calls = <<>> /\ ~tlog[k].ret
            ELSE /\ LevelDue(k) <= Len(levels)
                 /\ LET lev == levels[LevelDue(k)]
                    IN  /\ Len(tlog[k].calls) = Len(lev)
                        /\ \A i \in 1..Len(lev) :
                              /\ tlog[k].calls[i].cl = lev[i]
                              /\ tlog[k].calls[i].initial = (i = 1)
                 /\ tlog[k].ret = (LevelDue(k) < Len(levels))

\* A cycle over three levels was made, left by a reset at its second level
\* and started again.
TraverseCyclesSeen ==
    /\ Len(levels) = 3 /\ Len(levels[1]) = 2 /\ Len(tlog) = 5
    /\ tlog[1].op = "traverse" /\ tlog[2].op = "traverse"
    /\ tlog[3].op = "reset"
    /\ tlog[4].op = "traverse" /\ tlog[4].calls = OperationCalls(levels[1])
    /\ tlog[5].op = "traverse" /\ tlog[5].ret

====
